---------------------------- MODULE Spec2Model ----------------------------
(***************************************************************************)
(* The request lifecycle scheduler of the task_execution skill             *)
(* (TaskExecutionBehaviour, behaviours.py): intake, the pending queue, the *)
(* Task Registry (req_id_to_data), the worker pool, timeout / requeue,     *)
(* finalization and publication to the done list.                          *)
(*                                                                         *)
(* One act() call is one atomic step (Tick): the scheduler is a            *)
(* single-threaded cooperative driver.  Between ticks the environment      *)
(* delivers (or loses) responses, completes or crashes workers, and lets   *)
(* the clock advance.                                                      *)
(***************************************************************************)
EXTENDS Integers, Sequences, FiniteSets, Bags, TLC

(***************************************************************************)
(* Bounds of the model and the configuration it is checked with.           *)
(***************************************************************************)
MaxRequests == 2          \* requests the ledger ever emits (ids 1..MaxRequests)
MaxTime == 90             \* the clock stops advancing here
TimeStep == 30            \* granularity of the clock
MaxCopies == 2            \* identical unanswered calls kept apart; an older one counts as lost
MaxSlots == 2             \* largest params.max_executing_tasks checked
MaxTimeoutLimit == 2      \* largest params.timeout_limit checked

task_deadline == 30       \* params.task_deadline (base deadline, seconds)
max_queue_size == 1       \* params.max_queue_size
polling_interval == 90    \* params.polling_interval

\* the configurations the scheduler is checked with
Configs ==
  { [max_executing_tasks |-> MaxSlots, timeout_limit |-> MaxTimeoutLimit,
     clear_queue |-> FALSE],
    [max_executing_tasks |-> MaxSlots, timeout_limit |-> MaxTimeoutLimit - 1,
     clear_queue |-> FALSE],
    [max_executing_tasks |-> MaxSlots - 1, timeout_limit |-> MaxTimeoutLimit,
     clear_queue |-> FALSE],
    [max_executing_tasks |-> MaxSlots - 1,
     timeout_limit |-> MaxTimeoutLimit - 1, clear_queue |-> TRUE] }

(***************************************************************************)
(* Program constants.                                                      *)
(***************************************************************************)
SEND_MESSAGE_TIMEOUT == 30     \* send_message: in_flight_req_timeout
FROM_BLOCK_TIMEOUT == 10       \* _populate_from_block
UNDELIVERED_REQS_TIMEOUT == 900 \* _check_for_new_reqs
FINALIZATION_TIMEOUT == 30     \* _execute_task: finalization_timeout
MAX_DENOM == 5                 \* task_deadline: min(.., 5)
SUCCESS_LEN == 5               \* _handle_done_task: len(task_result) == 5
DUMMY_REQ_ID == 0              \* _download_tools: dummy_req_id

None == 0 - 1                  \* Python's None where a time or an index is expected
INVALID_RESPONSE == "Invalid response"
TOOL_MESSAGE == "ok"           \* deliver_msg of a tool that ran
TIMEOUT_MESSAGE == "Task timed out timeout_limit times during execution. "

\* tool names in configuration order (params.file_hash_to_tools)
ToolNames == <<"t1", "t2">>
ConfiguredTools == {ToolNames[i] : i \in 1..Len(ToolNames)}

RequestIds == 1..MaxRequests

\* what the content store holds for a request's payload hash
Payloads ==
  { [wellformed |-> TRUE, tool |-> "t1"],
    [wellformed |-> TRUE, tool |-> "unknown"],
    [wellformed |-> FALSE, tool |-> ""] }

VARIABLES
  now,                         \* time.time()
  params,                      \* params: max_executing_tasks, timeout_limit, clear_queue
  pending_tasks,               \* shared_state["pending_tasks"]
  req_id_to_data,              \* params.req_id_to_data, in insertion order
  done_tasks,                  \* shared_state["ready_tasks"]
  in_flight_req,               \* params.in_flight_req
  in_flight_req_timeout,       \* params.in_flight_req_timeout
  req_to_callback,             \* params.req_to_callback: unanswered content-store calls
  ledger_requests,             \* unanswered ledger calls
  from_block,                  \* params.from_block
  last_polling,                \* self._last_polling
  all_tools,                   \* self._all_tools (its keys)
  inflight_tool_req,           \* self._inflight_tool_req
  executor,                    \* self._executor
  task_index,                  \* self._task_index
  request_id_to_num_timeouts,  \* params.request_id_to_num_timeouts
  accepted,                    \* history: the payloads of the requests emitted, by id
  submitted,                   \* history: request ids handed to a worker slot
  probe                        \* inputs and results of the pure computations

vars == << now, params, pending_tasks, req_id_to_data, done_tasks,
           in_flight_req, in_flight_req_timeout, req_to_callback,
           ledger_requests, from_block, last_polling, all_tools,
           inflight_tool_req, executor, task_index,
           request_id_to_num_timeouts, accepted, submitted, probe >>

-----------------------------------------------------------------------------
(***************************************************************************)
(* Helpers on ordered dictionaries (sequences of task records keyed by     *)
(* requestId) and on bags of unanswered calls.                             *)
(***************************************************************************)
Min(S) == CHOOSE x \in S : \A y \in S : x <= y

Keys(reg) == {reg[i].requestId : i \in 1..Len(reg)}

IndexOf(reg, r) == CHOOSE i \in 1..Len(reg) : reg[i].requestId = r

RemoveAt(reg, i) == SubSeq(reg, 1, i - 1) \o SubSeq(reg, i + 1, Len(reg))

\* dict[key] = value: an existing key keeps its place, a new key goes last
DictSet(reg, t) ==
  IF t.requestId \in Keys(reg)
    THEN [reg EXCEPT ![IndexOf(reg, t.requestId)] = t]
    ELSE Append(reg, t)

\* dict.pop(key, None)
DictPop(reg, r) ==
  IF r \in Keys(reg) THEN RemoveAt(reg, IndexOf(reg, r)) ELSE reg

BagAdd(b, e) ==
  IF CopiesIn(e, b) < MaxCopies THEN b (+) SetToBag({e}) ELSE b

BagRemove(b, e) == b (-) SetToBag({e})

NoDoneTask == [request_id |-> 0, tool |-> "none", transaction |-> "absent",
               task_result |-> ""]

\* a request as the ledger handler enqueues it
NewRequest(r, payload) ==
  [ requestId |-> r, data |-> payload, executor_idx |-> None,
    async_result |-> "none", timeout_deadline |-> None,
    is_invalid |-> FALSE, pending_finalization |-> FALSE,
    finalization_timeout |-> 0, tool |-> "none", done_task |-> NoDoneTask ]

\* the files of a content-store response
Files(wellformed, tool, result) ==
  [wellformed |-> wellformed, tool |-> tool, result |-> result]

Call(callback, req_id, files) ==
  [callback |-> callback, req_id |-> req_id, files |-> files]

\* results a finished computation hands to _handle_done_task
NoResult == [len |-> 0, message |-> ""]
ToolResult == [len |-> SUCCESS_LEN, message |-> TOOL_MESSAGE,
               prompt |-> "prompt-x", transaction |-> "tx"]


-----------------------------------------------------------------------------
(***************************************************************************)
(* The task deadline (property task_deadline).  Python divides floats; the *)
(* model keeps the quotient as a fraction num/den.                         *)
(***************************************************************************)
Frac(n, d) == [num |-> n, den |-> d]

\* min(max_queue_size / queue_size, 5)
Denom(maxq, q) ==
  IF maxq <= MAX_DENOM * q THEN Frac(maxq, q) ELSE Frac(MAX_DENOM, 1)

\* the duration task_deadline adds to time.time()
DeadlineDuration(base, maxq, q) ==
  IF maxq < q
    THEN Frac(base * Denom(maxq, q).den, Denom(maxq, q).num)
    ELSE Frac(base, 1)

\* least integer clock reading that is >= the fraction
Ceil(f) == (f.num + f.den - 1) \div f.den

\* the value of the property at clock reading t, rounded up to the clock's grain
TaskDeadline(t, q) ==
  t + Ceil(DeadlineDuration(task_deadline, max_queue_size, q))

-----------------------------------------------------------------------------
(***************************************************************************)
(* The scheduler's state as one record, so that the three calls of act()   *)
(* compose.                                                                *)
(***************************************************************************)
SchedState ==
  [ pending_tasks |-> pending_tasks,
    req_id_to_data |-> req_id_to_data,
    in_flight_req |-> in_flight_req,
    in_flight_req_timeout |-> in_flight_req_timeout,
    req_to_callback |-> req_to_callback,
    ledger_requests |-> ledger_requests,
    last_polling |-> last_polling,
    inflight_tool_req |-> inflight_tool_req,
    executor |-> executor,
    task_index |-> task_index,
    request_id_to_num_timeouts |-> request_id_to_num_timeouts ]

send_message(S, callback, req_id, files) ==
  [S EXCEPT !.in_flight_req = TRUE,
            !.in_flight_req_timeout = now + SEND_MESSAGE_TIMEOUT,
            !.req_to_callback = BagAdd(@, Call(callback, req_id, files))]

\* the guard both _execute_task and _check_for_new_reqs start with
InFlight(S) == S.in_flight_req /\ now < S.in_flight_req_timeout

MissingTools == {i \in 1..Len(ToolNames) : ToolNames[i] \notin all_tools}

\* _download_tools that takes the last missing tool instead of the first
download_tools_last_missing(S) ==
  IF S.inflight_tool_req # "none" THEN S
  ELSE IF Len(ToolNames) = Cardinality(all_tools) THEN S
  ELSE IF MissingTools = {} THEN S
  ELSE LET tool == ToolNames[CHOOSE i \in MissingTools :
                               \A j \in MissingTools : j <= i]
       IN send_message([S EXCEPT !.inflight_tool_req = tool],
                       "get_tool", DUMMY_REQ_ID, Files(TRUE, tool, ""))

download_tools(S) ==
  IF S.inflight_tool_req # "none" THEN S
  ELSE IF Len(ToolNames) = Cardinality(all_tools) THEN S
  ELSE IF MissingTools = {} THEN S
  ELSE LET tool == ToolNames[Min(MissingTools)]
       IN send_message([S EXCEPT !.inflight_tool_req = tool],
                       "get_tool", DUMMY_REQ_ID, Files(TRUE, tool, ""))

\* _should_poll that does not wait for the polling interval
should_poll_always(S) == TRUE

should_poll(S) ==
  IF S.last_polling = None THEN TRUE
  ELSE S.last_polling + polling_interval <= now

populate_from_block(S) ==
  [S EXCEPT !.in_flight_req = TRUE,
            !.in_flight_req_timeout = now + FROM_BLOCK_TIMEOUT,
            !.ledger_requests = BagAdd(@, "get_block")]

check_for_new_reqs(S) ==
  IF InFlight(S) \/ ~should_poll(S) THEN S
  ELSE IF from_block = "None" THEN populate_from_block(S)
  ELSE [S EXCEPT !.in_flight_req = TRUE,
                 !.in_flight_req_timeout = now + UNDELIVERED_REQS_TIMEOUT,
                 !.ledger_requests =
                     BagAdd(@, "get_multiple_undelivered_reqs"),
                 !.last_polling = now]

-----------------------------------------------------------------------------
(***************************************************************************)
(* _execute_task and what it calls.  A future is kept as its state:        *)
(* "none", "running", "orphaned" (still running, on a process pool that    *)
(* has been shut down and replaced), "done" (returned), "raised" (an       *)
(* exception is stored) or "cancelled".                                    *)
(***************************************************************************)
FutureDone(a) == a \in {"done", "raised", "cancelled"}

is_executing_task_ready(t) ==
  IF t.async_result = "none" THEN FALSE ELSE FutureDone(t.async_result)

has_executing_task_timed_out(t) ==
  IF t.timeout_deadline = None THEN FALSE ELSE t.timeout_deadline <= now

is_task_invalid(t) == t.is_invalid

get_executing_task_result(t) ==
  IF t.is_invalid THEN NoResult
  ELSE IF t.async_result = "done" THEN ToolResult
  ELSE NoResult

timeout_limit_reached(S, r) ==
  params.timeout_limit <= S.request_id_to_num_timeouts[r]

\* the envelope's "result" taken from the task result whatever its length
ResponseResult_unchecked(task_result) == task_result.message

\* the envelope's "result" for a task result
ResponseResult(task_result) ==
  IF task_result.len = SUCCESS_LEN THEN task_result.message
  ELSE INVALID_RESPONSE

\* the done_task record that never gets the "transaction" key
DoneTaskOf_no_transaction(t, task_result) ==
  [ request_id |-> t.requestId, tool |-> t.tool,
    transaction |-> "absent", task_result |-> "" ]

DoneTaskOf(t, task_result) ==
  [ request_id |-> t.requestId, tool |-> t.tool,
    transaction |-> IF task_result.len = SUCCESS_LEN
                      THEN task_result.transaction ELSE "absent",
    task_result |-> "" ]

\* the response dict _handle_done_task serialises; "keys" are the keys it has
Response(req_id, task_result) ==
  IF task_result.len = SUCCESS_LEN
    THEN [ requestId |-> req_id, result |-> ResponseResult(task_result),
           prompt |-> task_result.prompt,
           keys |-> {"requestId", "result", "prompt", "cost_dict",
                     "metadata"} ]
    ELSE [ requestId |-> req_id, result |-> ResponseResult(task_result),
           prompt |-> "",
           keys |-> {"requestId", "result"} ]

\* _handle_done_task for the registry entry at index i
handle_done_task(S, i, task_result) ==
  LET t == S.req_id_to_data[i]
      S1 == [S EXCEPT !.req_id_to_data[i].done_task =
                          DoneTaskOf(t, task_result)]
  IN send_message(S1, "store", t.requestId,
                  Files(TRUE, "", Response(t.requestId, task_result).result))

\* the 4-tuple _handle_timeout_task builds
TimeoutResult == [len |-> 4, message |-> TIMEOUT_MESSAGE]

\* Future.cancel(): a queued future is cancelled, a running one is not
Cancel(a, cancelled) ==
  IF a \in {"running", "orphaned"} /\ cancelled THEN "cancelled" ELSE a

\* futures of the pool that is shut down keep running, detached from the slot
RECURSIVE Orphan(_, _)
Orphan(tasks, idx) ==
  IF tasks = << >> THEN << >>
  ELSE LET t == Head(tasks)
       IN << IF t.executor_idx = idx /\ t.async_result = "running"
               THEN [t EXCEPT !.async_result = "orphaned"]
               ELSE t >> \o Orphan(Tail(tasks), idx)

restart_executor(S, idx) ==
  [S EXCEPT !.executor[idx] = "ok",
            !.req_id_to_data = Orphan(@, idx)]

\* _handle_timeout_task that drops the task once the limit is reached
handle_timeout_task_drops(S, i, cancelled) ==
  LET t0 == S.req_id_to_data[i]
      r == t0.requestId
      S1 == [S EXCEPT !.request_id_to_num_timeouts[r] = @ + 1,
                      !.req_id_to_data[i].async_result =
                          Cancel(@, cancelled)]
      S2 == restart_executor(S1, t0.executor_idx)
      t == S2.req_id_to_data[i]
  IN IF ~timeout_limit_reached(S2, r)
       THEN [S2 EXCEPT
               !.pending_tasks =
                   Append(@, [t EXCEPT !.pending_finalization = FALSE]),
               !.req_id_to_data = DictPop(@, r)]
       ELSE [S2 EXCEPT !.req_id_to_data = DictPop(@, r)]

\* _handle_timeout_task that pushes the task back without counting the timeout
handle_timeout_task_uncounted(S, i, cancelled) ==
  LET t0 == S.req_id_to_data[i]
      r == t0.requestId
      S1 == [S EXCEPT !.req_id_to_data[i].async_result =
                          Cancel(@, cancelled)]
      S2 == restart_executor(S1, t0.executor_idx)
      t == S2.req_id_to_data[i]
  IN IF ~timeout_limit_reached(S2, r)
       THEN [S2 EXCEPT
               !.pending_tasks =
                   Append(@, [t EXCEPT !.pending_finalization = FALSE]),
               !.req_id_to_data = DictPop(@, r)]
       ELSE handle_done_task(S2, i, TimeoutResult)

\* _handle_timeout_task for the registry entry at index i
handle_timeout_task(S, i, cancelled) ==
  LET t0 == S.req_id_to_data[i]
      r == t0.requestId
      S1 == [S EXCEPT !.request_id_to_num_timeouts[r] = @ + 1,
                      !.req_id_to_data[i].async_result =
                          Cancel(@, cancelled)]
      S2 == restart_executor(S1, t0.executor_idx)
      t == S2.req_id_to_data[i]
  IN IF ~timeout_limit_reached(S2, r)
       THEN [S2 EXCEPT
               !.pending_tasks =
                   Append(@, [t EXCEPT !.pending_finalization = FALSE]),
               !.req_id_to_data = DictPop(@, r)]
       ELSE handle_done_task(S2, i, TimeoutResult)

\* the first loop of _execute_task: a finalization that timed out
ExpiredFinalizations(S) ==
  {i \in 1..Len(S.req_id_to_data) :
     /\ S.req_id_to_data[i].pending_finalization
     /\ now > S.req_id_to_data[i].finalization_timeout}

MarkExpired(S) ==
  IF ExpiredFinalizations(S) = {} THEN S
  ELSE [S EXCEPT !.req_id_to_data[Min(ExpiredFinalizations(S))].is_invalid
                     = TRUE]

PendingFinalization(S) ==
  /\ \E i \in 1..Len(S.req_id_to_data) :
        S.req_id_to_data[i].pending_finalization
  /\ ExpiredFinalizations(S) = {}

\* the second loop: the first task that is ready, invalid or timed out
Finalizable(S) ==
  {i \in 1..Len(S.req_id_to_data) :
     LET t == S.req_id_to_data[i]
     IN \/ is_executing_task_ready(t)
        \/ is_task_invalid(t)
        \/ has_executing_task_timed_out(t)}

SetPendingFinalization(S, r) ==
  IF r \in Keys(S.req_id_to_data)
    THEN [S EXCEPT
            !.req_id_to_data[IndexOf(S.req_id_to_data, r)] =
               [@ EXCEPT !.pending_finalization = TRUE,
                         !.finalization_timeout =
                             now + FINALIZATION_TIMEOUT]]
    ELSE S

FinalizeOne(S, cancelled) ==
  IF Finalizable(S) = {} THEN S
  ELSE LET i == Min(Finalizable(S))
           t == S.req_id_to_data[i]
       IN IF is_executing_task_ready(t) \/ is_task_invalid(t)
            THEN handle_done_task(SetPendingFinalization(S, t.requestId),
                                  i, get_executing_task_result(t))
            ELSE SetPendingFinalization(
                   handle_timeout_task(S, i, cancelled), t.requestId)

\* the tail of _execute_task that takes the request at the end of the queue
Dequeue_takes_last(S) ==
  IF Len(S.pending_tasks) = 0 THEN S
  ELSE IF Len(S.req_id_to_data) >= Cardinality(DOMAIN S.executor) THEN S
  ELSE LET executor_idx == S.task_index % Cardinality(DOMAIN S.executor)
           n == Len(S.pending_tasks)
           task_data == [S.pending_tasks[n] EXCEPT
                           !.executor_idx = executor_idx]
           S1 == [S EXCEPT !.task_index = @ + 1,
                           !.pending_tasks = SubSeq(@, 1, n - 1),
                           !.req_id_to_data = DictSet(@, task_data)]
       IN send_message(S1, "get_task", task_data.requestId,
                       Files(task_data.data.wellformed,
                             task_data.data.tool, ""))

\* the tail of _execute_task that leaves the request at the head of the queue
Dequeue_keeps_head(S) ==
  IF Len(S.pending_tasks) = 0 THEN S
  ELSE IF Len(S.req_id_to_data) >= Cardinality(DOMAIN S.executor) THEN S
  ELSE LET executor_idx == S.task_index % Cardinality(DOMAIN S.executor)
           task_data == [Head(S.pending_tasks) EXCEPT
                           !.executor_idx = executor_idx]
           S1 == [S EXCEPT !.task_index = @ + 1,
                           !.req_id_to_data = DictSet(@, task_data)]
       IN send_message(S1, "get_task", task_data.requestId,
                       Files(task_data.data.wellformed,
                             task_data.data.tool, ""))

\* the tail of _execute_task without the test that all executors are busy
Dequeue_unguarded(S) ==
  IF Len(S.pending_tasks) = 0 THEN S
  ELSE LET executor_idx == S.task_index % Cardinality(DOMAIN S.executor)
           task_data == [Head(S.pending_tasks) EXCEPT
                           !.executor_idx = executor_idx]
           S1 == [S EXCEPT !.task_index = @ + 1,
                           !.pending_tasks = Tail(@),
                           !.req_id_to_data = DictSet(@, task_data)]
       IN send_message(S1, "get_task", task_data.requestId,
                       Files(task_data.data.wellformed,
                             task_data.data.tool, ""))

\* the tail of _execute_task: bind the head of the queue to a slot
Dequeue(S) ==
  IF Len(S.pending_tasks) = 0 THEN S
  ELSE IF Len(S.req_id_to_data) >= Cardinality(DOMAIN S.executor) THEN S
  ELSE LET executor_idx == S.task_index % Cardinality(DOMAIN S.executor)
           task_data == [Head(S.pending_tasks) EXCEPT
                           !.executor_idx = executor_idx]
           S1 == [S EXCEPT !.task_index = @ + 1,
                           !.pending_tasks = Tail(@),
                           !.req_id_to_data = DictSet(@, task_data)]
       IN send_message(S1, "get_task", task_data.requestId,
                       Files(task_data.data.wellformed,
                             task_data.data.tool, ""))

\* _execute_task without the test of the in-flight flag
execute_task_ungated(S, cancelled) ==
  LET S1 == MarkExpired(S)
      S2 == IF ~PendingFinalization(S) THEN FinalizeOne(S1, cancelled)
            ELSE S1
  IN Dequeue(S2)

execute_task(S, cancelled) ==
  IF InFlight(S) THEN S
  ELSE LET S1 == MarkExpired(S)
           S2 == IF ~PendingFinalization(S) THEN FinalizeOne(S1, cancelled)
                 ELSE S1
       IN Dequeue(S2)

\* act(): the three calls in order, on the state the call before left
act(S, cancelled) ==
  check_for_new_reqs(execute_task(download_tools(S), cancelled))

-----------------------------------------------------------------------------
(***************************************************************************)
(* Initial state: after __init__ and setup().                              *)
(***************************************************************************)
NoProbe == [base |-> 0, maxq |-> 1, q |-> 0, duration |-> Frac(0, 1),
            evaluated |-> FALSE]

Constructed ==
  /\ now = 0
  /\ params \in Configs
  /\ pending_tasks = << >>
  /\ req_id_to_data = << >>
  /\ done_tasks = << >>
  /\ in_flight_req = FALSE
  /\ in_flight_req_timeout = 0
  /\ req_to_callback = EmptyBag
  /\ ledger_requests = EmptyBag
  /\ from_block = "None"
  /\ last_polling = None
  /\ all_tools = {}
  /\ inflight_tool_req = "none"
  /\ executor = [idx \in 0..(params.max_executing_tasks - 1) |-> "ok"]
  /\ task_index = 0
  /\ request_id_to_num_timeouts = [r \in RequestIds |-> 0]
  /\ accepted = << >>
  /\ submitted = {}

Init ==
  /\ Constructed
  /\ probe = NoProbe

(***************************************************************************)
(* One scheduler tick.  The only choice inside it is whether the future of *)
(* a timed-out task can still be cancelled.                                *)
(***************************************************************************)
Tick ==
  \E cancelled \in BOOLEAN :
    \E S \in {act(SchedState, cancelled)} :
       /\ pending_tasks' = S.pending_tasks
       /\ req_id_to_data' = S.req_id_to_data
       /\ in_flight_req' = S.in_flight_req
       /\ in_flight_req_timeout' = S.in_flight_req_timeout
       /\ req_to_callback' = S.req_to_callback
       /\ ledger_requests' = S.ledger_requests
       /\ last_polling' = S.last_polling
       /\ inflight_tool_req' = S.inflight_tool_req
       /\ executor' = S.executor
       /\ task_index' = S.task_index
       /\ request_id_to_num_timeouts' = S.request_id_to_num_timeouts
       /\ UNCHANGED << now, params, done_tasks, from_block, all_tools,
                       accepted, submitted, probe >>

(***************************************************************************)
(* Content-store responses.  The dispatcher takes the callback registered  *)
(* for the call and runs it.  behaviours.py never resets in_flight_req:    *)
(* the dispatcher may reset it when a response arrives, or leave it to     *)
(* lapse at in_flight_req_timeout; both are modelled.                      *)
(***************************************************************************)
\* _handle_get_tool
handle_get_tool ==
  /\ all_tools' = all_tools \cup {inflight_tool_req}
  /\ inflight_tool_req' = "none"
  /\ UNCHANGED << req_id_to_data, done_tasks, executor, submitted >>

\* _submit_task on the scheduler state: a future, or, on a broken pool, the
\* restart and then the exception that leaves _submit_task
submit_task(S, idx) ==
  IF S.executor[idx] = "ok"
    THEN [raised |-> FALSE, state |-> S]
    ELSE [raised |-> TRUE, state |-> restart_executor(S, idx)]

\* _prepare_task, entered with the tool's code cached
prepare_task(req_id, files) ==
  LET i == IndexOf(req_id_to_data, req_id)
      t == req_id_to_data[i]
      sub == submit_task(SchedState, t.executor_idx)
  IN /\ executor' = sub.state.executor
     /\ IF sub.raised
          THEN /\ req_id_to_data' = sub.state.req_id_to_data
               /\ UNCHANGED submitted
          ELSE /\ submitted' = submitted \cup {req_id}
               /\ req_id_to_data' =
                    [req_id_to_data EXCEPT ![i] =
                       [t EXCEPT
                          !.timeout_deadline =
                              now + TaskDeadline(now, Len(pending_tasks)),
                          !.tool = files.tool,
                          !.async_result = "running"]]

\* is_data_valid without the test of params.clear_queue
is_data_valid_any_mode(files) == files.wellformed

is_data_valid(files) == files.wellformed /\ ~params.clear_queue

\* _handle_get_task
handle_get_task(req_id, files) ==
  /\ UNCHANGED << all_tools, inflight_tool_req, done_tasks >>
  /\ IF req_id \notin Keys(req_id_to_data)
       THEN UNCHANGED << req_id_to_data, executor, submitted >>
     ELSE IF is_data_valid(files) /\ files.tool \in ConfiguredTools
       THEN IF files.tool \in all_tools
              THEN prepare_task(req_id, files)
              ELSE UNCHANGED << req_id_to_data, executor, submitted >>
     ELSE IF is_data_valid(files)
       THEN /\ req_id_to_data' =
                 [req_id_to_data EXCEPT
                    ![IndexOf(req_id_to_data, req_id)] =
                       [@ EXCEPT !.tool = files.tool, !.is_invalid = TRUE]]
            /\ UNCHANGED << executor, submitted >>
     ELSE /\ req_id_to_data' =
               [req_id_to_data EXCEPT
                  ![IndexOf(req_id_to_data, req_id)].is_invalid = TRUE]
          /\ UNCHANGED << executor, submitted >>

\* _handle_store_response that puts the new record in front of the done list
\* and sets task_result only on the registry's copy
handle_store_response_prepends(req_id, files) ==
  /\ UNCHANGED << all_tools, inflight_tool_req, executor, submitted >>
  /\ IF req_id \notin Keys(req_id_to_data)
       THEN UNCHANGED << req_id_to_data, done_tasks >>
     ELSE LET t == req_id_to_data[IndexOf(req_id_to_data, req_id)]
          IN IF t.done_task = NoDoneTask
               THEN UNCHANGED << req_id_to_data, done_tasks >>
               ELSE /\ done_tasks' = << t.done_task >> \o done_tasks
                    /\ req_id_to_data' = DictPop(req_id_to_data, req_id)

\* _handle_store_response that leaves the task in the Task Registry
handle_store_response_keeps_task(req_id, files) ==
  /\ UNCHANGED << all_tools, inflight_tool_req, executor, submitted >>
  /\ IF req_id \notin Keys(req_id_to_data)
       THEN UNCHANGED << req_id_to_data, done_tasks >>
     ELSE LET t == req_id_to_data[IndexOf(req_id_to_data, req_id)]
          IN IF t.done_task = NoDoneTask
               THEN UNCHANGED << req_id_to_data, done_tasks >>
               ELSE /\ done_tasks' =
                         Append(done_tasks,
                                [t.done_task EXCEPT
                                   !.task_result = files.result])
                    /\ UNCHANGED req_id_to_data

\* _handle_store_response
handle_store_response(req_id, files) ==
  /\ UNCHANGED << all_tools, inflight_tool_req, executor, submitted >>
  /\ IF req_id \notin Keys(req_id_to_data)
       THEN UNCHANGED << req_id_to_data, done_tasks >>
     ELSE LET t == req_id_to_data[IndexOf(req_id_to_data, req_id)]
          IN IF t.done_task = NoDoneTask
               THEN UNCHANGED << req_id_to_data, done_tasks >>
               ELSE /\ done_tasks' =
                         Append(done_tasks,
                                [t.done_task EXCEPT
                                   !.task_result = files.result])
                    /\ req_id_to_data' = DictPop(req_id_to_data, req_id)

IpfsResponse ==
  \E m \in BagToSet(req_to_callback) :
    /\ in_flight_req' \in {FALSE, in_flight_req}
    /\ req_to_callback' = BagRemove(req_to_callback, m)
    /\ \/ m.callback = "get_tool" /\ handle_get_tool
       \/ m.callback = "get_task" /\ handle_get_task(m.req_id, m.files)
       \/ m.callback = "store" /\ handle_store_response(m.req_id, m.files)
    /\ UNCHANGED << now, params, pending_tasks, in_flight_req_timeout,
                    ledger_requests, from_block, last_polling, task_index,
                    request_id_to_num_timeouts, accepted,
                    probe >>

\* a call whose response never arrives
IpfsLost ==
  \E m \in BagToSet(req_to_callback) :
    /\ req_to_callback' = BagRemove(req_to_callback, m)
    /\ UNCHANGED << now, params, pending_tasks, req_id_to_data,
                    done_tasks, in_flight_req, in_flight_req_timeout,
                    ledger_requests, from_block, last_polling, all_tools,
                    inflight_tool_req, executor, task_index,
                    request_id_to_num_timeouts, accepted, submitted, probe >>

(***************************************************************************)
(* Ledger responses: the latest block seeds from_block; a scan enqueues    *)
(* the requests it found, each with a fresh id.                            *)
(***************************************************************************)
RECURSIVE Enqueue(_, _, _)
Enqueue(queue, first, payloads) ==
  IF payloads = << >> THEN queue
  ELSE Enqueue(Append(queue, NewRequest(first, Head(payloads))),
               first + 1, Tail(payloads))

PayloadLists(n) == [1..n -> Payloads]

LedgerResponse ==
  \E call \in BagToSet(ledger_requests) :
    /\ ledger_requests' = BagRemove(ledger_requests, call)
    /\ in_flight_req' \in {FALSE, in_flight_req}
    /\ \/ /\ call = "get_block"
          /\ from_block' = "set"
          /\ UNCHANGED << pending_tasks, accepted >>
       \/ /\ call = "get_multiple_undelivered_reqs"
          /\ \E n \in 0..(Cardinality(DOMAIN request_id_to_num_timeouts)
                             - Len(accepted)) :
               \E payloads \in PayloadLists(n) :
                 /\ pending_tasks' =
                       Enqueue(pending_tasks, Len(accepted) + 1, payloads)
                 /\ accepted' = accepted \o payloads
          /\ UNCHANGED from_block
    /\ UNCHANGED << now, params, req_id_to_data, done_tasks,
                    in_flight_req_timeout, req_to_callback, last_polling,
                    all_tools, inflight_tool_req, executor, task_index,
                    request_id_to_num_timeouts, submitted,
                    probe >>

LedgerLost ==
  \E call \in BagToSet(ledger_requests) :
    /\ ledger_requests' = BagRemove(ledger_requests, call)
    /\ UNCHANGED << now, params, pending_tasks, req_id_to_data,
                    done_tasks, in_flight_req, in_flight_req_timeout,
                    req_to_callback, from_block, last_polling, all_tools,
                    inflight_tool_req, executor, task_index,
                    request_id_to_num_timeouts, accepted, submitted, probe >>

(***************************************************************************)
(* The worker pool's side: a running future returns or raises, wherever    *)
(* the record that holds it is; a slot's process pool breaks.              *)
(***************************************************************************)
Finish(tasks, i, outcome) == [tasks EXCEPT ![i].async_result = outcome]

Unfinished(a) == a \in {"running", "orphaned"}

WorkerFinishes ==
  \E outcome \in {"done", "raised"} :
    /\ \/ \E i \in 1..Len(req_id_to_data) :
            /\ Unfinished(req_id_to_data[i].async_result)
            /\ req_id_to_data' = Finish(req_id_to_data, i, outcome)
            /\ UNCHANGED pending_tasks
       \/ \E i \in 1..Len(pending_tasks) :
            /\ Unfinished(pending_tasks[i].async_result)
            /\ pending_tasks' = Finish(pending_tasks, i, outcome)
            /\ UNCHANGED req_id_to_data
    /\ UNCHANGED << now, params, done_tasks, in_flight_req,
                    in_flight_req_timeout, req_to_callback, ledger_requests,
                    from_block, last_polling, all_tools, inflight_tool_req,
                    executor, task_index, request_id_to_num_timeouts,
                    accepted, submitted, probe >>

\* the worker process of a slot dies under a task: the pool is broken and
\* every future it still holds gets BrokenProcessPool
RECURSIVE Broken(_, _)
Broken(tasks, idx) ==
  IF tasks = << >> THEN << >>
  ELSE LET t == Head(tasks)
       IN << IF t.executor_idx = idx /\ t.async_result = "running"
               THEN [t EXCEPT !.async_result = "raised"]
               ELSE t >> \o Broken(Tail(tasks), idx)

ExecutorBreaks ==
  \E idx \in DOMAIN executor :
    /\ executor[idx] = "ok"
    /\ \E i \in 1..Len(req_id_to_data) :
          /\ req_id_to_data[i].executor_idx = idx
          /\ req_id_to_data[i].async_result = "running"
    /\ executor' = [executor EXCEPT ![idx] = "broken"]
    /\ req_id_to_data' = Broken(req_id_to_data, idx)
    /\ UNCHANGED << now, params, pending_tasks,
                    done_tasks, in_flight_req, in_flight_req_timeout,
                    req_to_callback, ledger_requests, from_block,
                    last_polling, all_tools, inflight_tool_req, task_index,
                    request_id_to_num_timeouts, accepted, submitted,
                    probe >>

AdvanceTime ==
  /\ now + TimeStep <= MaxTime
  /\ now' = now + TimeStep
  /\ UNCHANGED << params, pending_tasks, req_id_to_data, done_tasks,
                  in_flight_req, in_flight_req_timeout, req_to_callback,
                  ledger_requests, from_block, last_polling, all_tools,
                  inflight_tool_req, executor, task_index,
                  request_id_to_num_timeouts, accepted, submitted, probe >>

Next ==
  \/ Tick
  \/ IpfsResponse
  \/ IpfsLost
  \/ LedgerResponse
  \/ LedgerLost
  \/ WorkerFinishes
  \/ ExecutorBreaks
  \/ AdvanceTime

Spec == Init /\ [][Next]_vars

(***************************************************************************)
(* The scheduler with one more slot and one more request than Spec has.    *)
(* To keep the state space small the network here answers every call or    *)
(* stays silent, and no worker finishes or dies before the clock stops:    *)
(* every behaviour of WideSpec is a behaviour of the scheduler.            *)
(***************************************************************************)
WideConfig ==
  [max_executing_tasks |-> MaxSlots + 1,
   timeout_limit |-> MaxTimeoutLimit - 1, clear_queue |-> FALSE]

WideInit ==
  /\ now = 0
  /\ params = WideConfig
  /\ pending_tasks = << >>
  /\ req_id_to_data = << >>
  /\ done_tasks = << >>
  /\ in_flight_req = FALSE
  /\ in_flight_req_timeout = 0
  /\ req_to_callback = EmptyBag
  /\ ledger_requests = EmptyBag
  /\ from_block = "None"
  /\ last_polling = None
  /\ all_tools = {}
  /\ inflight_tool_req = "none"
  /\ executor = [idx \in 0..(params.max_executing_tasks - 1) |-> "ok"]
  /\ task_index = 0
  /\ request_id_to_num_timeouts = [r \in 1..(MaxRequests + 1) |-> 0]
  /\ accepted = << >>
  /\ submitted = {}
  /\ probe = NoProbe

WideNext ==
  \/ Tick
  \/ IpfsResponse
  \/ LedgerResponse
  \/ AdvanceTime

WideSpec == WideInit /\ [][WideNext]_vars

\* the framework keeps calling act() and the clock keeps running; nothing
\* obliges the network to answer or a worker to finish
Fairness == WF_vars(Tick) /\ WF_vars(AdvanceTime)

FairSpec == Init /\ [][Next]_vars /\ Fairness

-----------------------------------------------------------------------------
(***************************************************************************)
(* The task deadline on its own: the property is read once, for a base     *)
(* deadline, a configured maximum queue size and a queue length drawn from *)
(* the ranges below.                                                       *)
(***************************************************************************)
ProbeBases == {30, 100}
ProbeMaxQueueSizes == 1..5
ProbeQueueSizes == 0..20

DeadlineInit ==
  /\ Constructed
  /\ probe \in [base : ProbeBases, maxq : ProbeMaxQueueSizes,
                 q : ProbeQueueSizes, duration : {Frac(0, 1)},
                 evaluated : {FALSE}]

\* reading the property task_deadline (less the clock reading it adds)
ReadTaskDeadline ==
  /\ ~probe.evaluated
  /\ probe' = [probe EXCEPT
                 !.duration = DeadlineDuration(probe.base, probe.maxq,
                                               probe.q),
                 !.evaluated = TRUE]
  /\ UNCHANGED << now, params, pending_tasks, req_id_to_data, done_tasks,
                  in_flight_req, in_flight_req_timeout, req_to_callback,
                  ledger_requests, from_block, last_polling, all_tools,
                  inflight_tool_req, executor, task_index,
                  request_id_to_num_timeouts, accepted, submitted >>

DeadlineNext == ReadTaskDeadline

DeadlineSpec == DeadlineInit /\ [][DeadlineNext]_vars

-----------------------------------------------------------------------------
(***************************************************************************)
(* Publication of one task result on its own: _handle_done_task builds the *)
(* response and the done_task for a task result, and the store completion  *)
(* (_handle_store_response) sets task_result and appends the record.       *)
(* Bytes are numbers 0..255, a hex string is the sequence of its digits.   *)
(***************************************************************************)
WORD == 32                     \* bytes in a word of the (uint256, bytes) encoding

RECURSIVE BigEndian(_, _)
BigEndian(n, w) ==
  IF w = 0 THEN << >> ELSE BigEndian(n \div 256, w - 1) \o << n % 256 >>

Hex(bytes) ==
  [i \in 1..(2 * Len(bytes)) |->
     IF i % 2 = 1 THEN bytes[(i + 1) \div 2] \div 16
                  ELSE bytes[i \div 2] % 16]

FromHex(digits) ==
  [i \in 1..(Len(digits) \div 2) |->
     16 * digits[2 * i - 1] + digits[2 * i]]

\* encode(["uint256", "bytes"], [cost, data]): head (cost, offset), then the
\* length of data and data padded to whole words
Encode(cost, data) ==
  BigEndian(cost, WORD) \o BigEndian(2 * WORD, WORD)
    \o BigEndian(Len(data), WORD) \o data
    \o BigEndian(0, (WORD - (Len(data) % WORD)) % WORD)

\* to_multihash(to_v1(ipfs_hash)): the hex digits of the content digest
to_multihash(ipfs_hash) == Hex(ipfs_hash.digest)

\* task_result as published without regard to the pricing mode
TaskResultOf_raw(ipfs_hash, cost, use_dynamic_pricing) ==
  to_multihash(ipfs_hash)

\* task_result as _handle_store_response computes it
TaskResultOf(ipfs_hash, cost, use_dynamic_pricing) ==
  LET task_result == to_multihash(ipfs_hash)
  IN IF use_dynamic_pricing
       THEN Hex(Encode(cost, FromHex(task_result)))
       ELSE task_result

ProbeMessages == {"ok", "m2"}
ProbePrompts == {"prompt-x", "p2"}
ProbeTransactions == {"tx-a", "tx-b"}
ProbeDigests == { << 18, 32, 7 >>, << 255, 0 >> }
ProbeCosts == {0, 300}

TaskResults ==
  {NoResult, TimeoutResult}
    \cup [len : {SUCCESS_LEN}, message : ProbeMessages,
          prompt : ProbePrompts, transaction : ProbeTransactions]

NoResponse == [requestId |-> 0, result |-> "", prompt |-> "", keys |-> {}]

ResultInit ==
  /\ Constructed
  /\ probe \in [req_id : RequestIds, tool : ConfiguredTools,
                 task_result : TaskResults,
                 ipfs_hash : [codec : {"v1"}, digest : ProbeDigests],
                 cost : ProbeCosts, use_dynamic_pricing : BOOLEAN,
                 response : {NoResponse}, done_task : {NoDoneTask},
                 appended : {<< >>}, stage : {"result"}]

\* _handle_done_task on the task result
BuildResponse ==
  /\ probe.stage = "result"
  /\ probe' = [probe EXCEPT
                 !.done_task =
                     DoneTaskOf([requestId |-> probe.req_id,
                                 tool |-> probe.tool], probe.task_result),
                 !.response = Response(probe.req_id, probe.task_result),
                 !.stage = "sent"]
  /\ UNCHANGED << now, params, pending_tasks, req_id_to_data, done_tasks,
                  in_flight_req, in_flight_req_timeout, req_to_callback,
                  ledger_requests, from_block, last_polling, all_tools,
                  inflight_tool_req, executor, task_index,
                  request_id_to_num_timeouts, accepted, submitted >>

\* _handle_store_response on the store's answer
StoreCompletes ==
  /\ probe.stage = "sent"
  /\ probe' = [probe EXCEPT
                 !.appended =
                     << [probe.done_task EXCEPT
                           !.task_result =
                               TaskResultOf(probe.ipfs_hash, probe.cost,
                                            probe.use_dynamic_pricing)] >>,
                 !.stage = "stored"]
  /\ UNCHANGED << now, params, pending_tasks, req_id_to_data, done_tasks,
                  in_flight_req, in_flight_req_timeout, req_to_callback,
                  ledger_requests, from_block, last_polling, all_tools,
                  inflight_tool_req, executor, task_index,
                  request_id_to_num_timeouts, accepted, submitted >>

ResultNext == BuildResponse \/ StoreCompletes

ResultSpec == ResultInit /\ [][ResultNext]_vars

-----------------------------------------------------------------------------
(***************************************************************************)
(* Vocabulary of the properties.                                           *)
(***************************************************************************)
DoneIds == {done_tasks[i].request_id : i \in 1..Len(done_tasks)}

StoreCalls(r) ==
  {m \in BagToSet(req_to_callback) : m.callback = "store" /\ m.req_id = r}

OutstandingCalls ==
  BagCardinality(req_to_callback) + BagCardinality(ledger_requests)

\* the content store holds no well-formed payload for request r
InvalidPayload(r) == r <= Len(accepted) /\ ~accepted[r].wellformed

(***************************************************************************)
(* C1: the done list never holds two Done Task records with the same       *)
(* request_id, whatever responses were late or lost and whatever timed     *)
(* out.                                                                    *)
(***************************************************************************)
C1_NoDuplicateDoneTask ==
  \A i, j \in 1..Len(done_tasks) :
    i # j => done_tasks[i].request_id # done_tasks[j].request_id

\* a request is published while a second store call for it is unanswered
C1_Witness ==
  \E r \in DoneIds : StoreCalls(r) # {}

\* the scheduler waits for a clock reading later than the last one modelled
BeyondHorizon ==
  \/ in_flight_req /\ in_flight_req_timeout > MaxTime
  \/ \E i \in 1..Len(req_id_to_data) :
        \/ /\ req_id_to_data[i].timeout_deadline # None
           /\ req_id_to_data[i].timeout_deadline > MaxTime
        \/ /\ req_id_to_data[i].pending_finalization
           /\ req_id_to_data[i].finalization_timeout >= MaxTime

(***************************************************************************)
(* C2: every request placed in the pending queue eventually has a Done     *)
(* Task in the done list, provided ticks keep occurring, also when a       *)
(* response is never delivered, a slot is broken at submit time or the     *)
(* task times out.  Checked up to the last clock reading modelled.         *)
(***************************************************************************)
C2_NoSilentDrop ==
  \A r \in RequestIds :
    (r \in Keys(pending_tasks)) ~> (r \in DoneIds \/ BeyondHorizon)

(***************************************************************************)
(* C3: at most one ledger or content-store call is outstanding; in         *)
(* particular no single tick of act() issues two such calls.  Stated for   *)
(* the step: a step adds at most one call to the unanswered ones.          *)
(***************************************************************************)
C3_OneCallPerTick ==
  [][OutstandingCalls' <= OutstandingCalls + 1]_vars

(***************************************************************************)
(* C4: the Task Registry never holds more tasks than there are slots.      *)
(***************************************************************************)
C4_RegistryWithinSlots ==
  Len(req_id_to_data) <= params.max_executing_tasks

\* every slot is taken while a request waits and nothing is in flight
C4_Witness ==
  /\ Len(req_id_to_data) = params.max_executing_tasks
  /\ Len(pending_tasks) > 0
  /\ ~InFlight(SchedState)

(***************************************************************************)
(* C5: no two tasks in the Task Registry carry the same executor_idx.      *)
(***************************************************************************)
C5_ExclusiveSlotBinding ==
  \A i, j \in 1..Len(req_id_to_data) :
    i # j => req_id_to_data[i].executor_idx # req_id_to_data[j].executor_idx

(***************************************************************************)
(* C6: once a request's timeout counter has reached timeout_limit the      *)
(* request is not pushed back onto the pending queue, and its counter      *)
(* never exceeds timeout_limit.                                            *)
(***************************************************************************)
C6_TimeoutLimitIsFinal ==
  \A r \in RequestIds :
    /\ request_id_to_num_timeouts[r] <= params.timeout_limit
    /\ request_id_to_num_timeouts[r] >= params.timeout_limit
         => r \notin Keys(pending_tasks)

(***************************************************************************)
(* C7: with max_queue_size 5 and base deadline 100, a queue of 20 gives a  *)
(* deadline duration of 20 and a queue of 3 gives a duration of 100.       *)
(***************************************************************************)
C7_DeadlineScaling ==
  (probe.evaluated /\ probe.base = 100 /\ probe.maxq = 5) =>
     /\ probe.q = 20 => probe.duration.num = 20 * probe.duration.den
     /\ probe.q = 3 => probe.duration.num = 100 * probe.duration.den

(***************************************************************************)
(* C8: a request whose payload is invalid is never submitted to a slot,    *)
(* never times out or is requeued, is finalized only as invalid, and every *)
(* envelope stored for it, and so its Done Task, has result "Invalid       *)
(* response".                                                              *)
(***************************************************************************)
C8_InvalidPayloadFailsOnce ==
  \A r \in RequestIds :
    InvalidPayload(r) =>
      /\ r \notin submitted
      /\ request_id_to_num_timeouts[r] = 0
      /\ \A i \in 1..Len(pending_tasks) :
           pending_tasks[i].requestId = r
             => pending_tasks[i].executor_idx = None
      /\ \A i \in 1..Len(req_id_to_data) :
           /\ req_id_to_data[i].requestId = r
           /\ req_id_to_data[i].pending_finalization
           => req_id_to_data[i].is_invalid
      /\ \A m \in StoreCalls(r) : m.files.result = INVALID_RESPONSE
      /\ \A i \in 1..Len(done_tasks) :
           done_tasks[i].request_id = r
             => done_tasks[i].task_result = INVALID_RESPONSE

\* a request with an invalid payload has been published
C8_Witness ==
  \E r \in DoneIds : InvalidPayload(r)

C12_TaskResultByPricing ==
  probe.stage = "stored" =>
    LET resultBytes == probe.ipfs_hash.digest
        published == probe.appended[1].task_result
    IN IF probe.use_dynamic_pricing
         THEN /\ FromHex(published) = Encode(probe.cost, resultBytes)
              /\ SubSeq(FromHex(published), 1, WORD)
                    = BigEndian(probe.cost, WORD)
              /\ SubSeq(FromHex(published), 3 * WORD + 1,
                        3 * WORD + Len(resultBytes)) = resultBytes
         ELSE published = Hex(resultBytes)

\* a record was published with dynamic pricing and a cost of two bytes
C12_Witness ==
  /\ probe.stage = "stored"
  /\ probe.use_dynamic_pricing
  /\ probe.cost = 300
  /\ Len(probe.appended[1].task_result) = 2 * 4 * WORD

\* unanswered tool fetches
ToolFetches ==
  {m \in BagToSet(req_to_callback) : m.callback = "get_tool"}

RECURSIVE CopiesOf(_, _)
CopiesOf(calls, bag) ==
  IF calls = {} THEN 0
  ELSE LET m == CHOOSE x \in calls : TRUE
       IN CopiesIn(m, bag) + CopiesOf(calls \ {m}, bag)

ToolFetchCount == CopiesOf(ToolFetches, req_to_callback)

\* a configured tool without a cached entry, none before it in the order
IsFirstMissing(tool) ==
  \E i \in 1..Len(ToolNames) :
    /\ ToolNames[i] = tool
    /\ tool \notin all_tools
    /\ \A j \in 1..(i - 1) : ToolNames[j] \in all_tools

(***************************************************************************)
(* C13: _download_tools issues no fetch while a tool download is in flight *)
(* or when every configured tool is cached; otherwise it issues exactly    *)
(* one fetch, for the first missing tool in configuration order; at most   *)
(* one tool fetch is ever outstanding.                                     *)
(***************************************************************************)
C13_OneToolFetchInOrder ==
  [][/\ ToolFetchCount' <= 1
     /\ ToolFetchCount' > ToolFetchCount =>
           /\ inflight_tool_req = "none"
           /\ IsFirstMissing(inflight_tool_req')
           /\ Call("get_tool", DUMMY_REQ_ID,
                    Files(TRUE, inflight_tool_req', ""))
                 \in ToolFetches'
     /\ (/\ Tick
         /\ inflight_tool_req = "none"
         /\ \E tool \in ConfiguredTools : tool \notin all_tools)
           => ToolFetchCount' = ToolFetchCount + 1
     /\ (/\ Tick
         /\ \/ inflight_tool_req # "none"
            \/ ConfiguredTools \subseteq all_tools)
           => /\ ToolFetches' = ToolFetches
              /\ inflight_tool_req' = inflight_tool_req]_vars

\* the first tool is cached and the fetch of the second one is unanswered
C13_Witness ==
  /\ all_tools = {ToolNames[1]}
  /\ inflight_tool_req = ToolNames[2]
  /\ ToolFetchCount = 1

(***************************************************************************)
(* C14: if a tool fetch fails (its response never arrives) the tool        *)
(* in-flight marker is cleared and a later tick reissues the fetch: from a *)
(* state where the marker names a tool and no fetch for it is unanswered,  *)
(* eventually the marker is cleared, a fetch is unanswered again or the    *)
(* tool is cached.  Checked up to the last clock reading modelled.         *)
(***************************************************************************)
C14_FailedToolFetchIsReissued ==
  \A tool \in ConfiguredTools :
    (inflight_tool_req = tool /\ ToolFetchCount = 0)
      ~> \/ inflight_tool_req # tool
         \/ ToolFetchCount > 0
         \/ tool \in all_tools
         \/ BeyondHorizon

(***************************************************************************)
(* C16: the done list only grows at its end: no step removes, reorders or  *)
(* changes an element already in it, a tick leaves it alone, and a record  *)
(* has its task_result when it is appended.                                *)
(***************************************************************************)
C16_DoneListAppendOnly ==
  [][/\ Len(done_tasks') \in {Len(done_tasks), Len(done_tasks) + 1}
     /\ SubSeq(done_tasks', 1, Len(done_tasks)) = done_tasks
     /\ \A i \in 1..Len(done_tasks') : done_tasks'[i].task_result # ""
     /\ Tick => done_tasks' = done_tasks]_vars

\* a second record has been appended behind the first
C16_Witness ==
  /\ Len(done_tasks) >= 2
  /\ done_tasks[1].request_id # done_tasks[2].request_id

\* the unanswered result-store calls, and how many there are
AllStoreCalls ==
  {m \in BagToSet(req_to_callback) : m.callback = "store"}

StoreCallCount == CopiesOf(AllStoreCalls, req_to_callback)

(***************************************************************************)
(* C17: a step that dequeues a request (binds it to a slot and sends its   *)
(* payload fetch) starts with a non-empty pending queue and with no        *)
(* content-store call in flight, ends with no more tasks in the registry   *)
(* than there are slots, and sends no result-store call.                   *)
(***************************************************************************)
C17_DequeueOnlyWhenIdle ==
  [][task_index' # task_index =>
       /\ pending_tasks # << >>
       /\ ~(in_flight_req /\ now < in_flight_req_timeout)
       /\ Len(req_id_to_data') <= Cardinality(DOMAIN executor)
       /\ StoreCallCount' <= StoreCallCount]_vars

\* the requests whose registry entry has pending_finalization set
Finalizing ==
  {req_id_to_data[i].requestId : i \in
     {j \in 1..Len(req_id_to_data) : req_id_to_data[j].pending_finalization}}

\* the registry entries whose finalization is under way and has not expired
UnexpiredFinalizations ==
  {req_id_to_data[i].requestId : i \in
     {j \in 1..Len(req_id_to_data) :
        /\ req_id_to_data[j].pending_finalization
        /\ ~(now > req_id_to_data[j].finalization_timeout)}}

(***************************************************************************)
(* C18: in one step at most one registry task newly gets                   *)
(* pending_finalization, and it is the first task of the registry that is  *)
(* ready, invalid or timed out; at most one request is dequeued; and no    *)
(* task newly gets pending_finalization while another registry task has    *)
(* pending_finalization set and a finalization timeout that has not        *)
(* expired.                                                                *)
(***************************************************************************)
C18_OneFinalizationPerTick ==
  [][/\ Cardinality(Finalizing' \ Finalizing) <= 1
     /\ task_index' <= task_index + 1
     /\ \A r \in Finalizing' \ Finalizing :
           /\ Finalizable(SchedState) # {}
           /\ req_id_to_data[Min(Finalizable(SchedState))].requestId = r
           /\ UnexpiredFinalizations \ {r} = {}]_vars

\* the registry entry of request r, before and after the step
EntryOf(r) == req_id_to_data[IndexOf(req_id_to_data, r)]

EntryAfter(r) == req_id_to_data'[IndexOf(req_id_to_data', r)]

RequeueCase(i) ==
  LET t == req_id_to_data[i]
  IN /\ Unfinished(t.async_result)
     /\ ~t.is_invalid
     /\ ~t.pending_finalization
     /\ has_executing_task_timed_out(t)
     /\ request_id_to_num_timeouts[t.requestId] + 1 < params.timeout_limit

\* what lines 318-322 of _execute_task leave for the entry at index i
AfterTimeout(i, cancelled) ==
  SetPendingFinalization(handle_timeout_task(SchedState, i, cancelled),
                         req_id_to_data[i].requestId)

(***************************************************************************)
(* C20: the transition taken for an executing task whose deadline has      *)
(* passed and whose counter, once incremented, is below the limit: the     *)
(* future is asked to cancel and the slot is restarted (the future is      *)
(* cancelled or detached from the slot, the slot is usable), the counter   *)
(* grows by exactly 1, the task leaves the registry and is appended at the *)
(* end of the pending queue with pending_finalization false, and no call   *)
(* is sent.                                                                *)
(***************************************************************************)
C20_RequeueOnTimeout ==
  \A i \in 1..Len(req_id_to_data) : \A cancelled \in BOOLEAN :
    RequeueCase(i) =>
      LET t == req_id_to_data[i]
          r == t.requestId
          S == AfterTimeout(i, cancelled)
          n == Len(S.pending_tasks)
      IN /\ S.request_id_to_num_timeouts[r]
              = request_id_to_num_timeouts[r] + 1
         /\ \A q \in DOMAIN request_id_to_num_timeouts \ {r} :
              S.request_id_to_num_timeouts[q] = request_id_to_num_timeouts[q]
         /\ S.executor[t.executor_idx] = "ok"
         /\ r \notin Keys(S.req_id_to_data)
         /\ Len(S.req_id_to_data) = Len(req_id_to_data) - 1
         /\ n = Len(pending_tasks) + 1
         /\ SubSeq(S.pending_tasks, 1, n - 1) = pending_tasks
         /\ S.pending_tasks[n].requestId = r
         /\ ~S.pending_tasks[n].pending_finalization
         /\ S.pending_tasks[n].async_result \in {"cancelled", "orphaned"}
         /\ S.req_to_callback = req_to_callback
         /\ S.ledger_requests = ledger_requests
         /\ S.in_flight_req = in_flight_req

\* a task that timed out once waits at the end of the pending queue
C20_Witness ==
  /\ pending_tasks # << >>
  /\ LET t == pending_tasks[Len(pending_tasks)]
     IN /\ request_id_to_num_timeouts[t.requestId] = 1
        /\ t.timeout_deadline # None
        /\ Unfinished(t.async_result) \/ t.async_result = "cancelled"
        /\ ~t.pending_finalization
        /\ t.requestId \notin Keys(req_id_to_data)

(***************************************************************************)
(* C21: a step that submits a task (sets its timeout_deadline) at clock    *)
(* reading now sets the deadline to now plus the deadline duration for the *)
(* current queue length, so that a task that never completes is timed out  *)
(* once that duration has elapsed.                                         *)
(***************************************************************************)
C21_DeadlineIsNowPlusDuration ==
  [][\A r \in Keys(req_id_to_data) \cap Keys(req_id_to_data') :
       EntryAfter(r).timeout_deadline # EntryOf(r).timeout_deadline =>
         EntryAfter(r).timeout_deadline =
           now + Ceil(DeadlineDuration(task_deadline, max_queue_size,
                                       Len(pending_tasks)))]_vars

\* fraction f is at most fraction g (denominators are positive)
FracLeq(f, g) == f.num * g.den <= g.num * f.den

(***************************************************************************)
(* C22: for every queue size and configuration the deadline duration is at *)
(* most the base deadline and at least a fifth of it, equals the base when *)
(* the queue is not longer than max_queue_size, and does not grow when the *)
(* queue gets one longer.                                                  *)
(***************************************************************************)
C22_DeadlineWithinBounds ==
  probe.evaluated =>
    /\ FracLeq(probe.duration, Frac(probe.base, 1))
    /\ FracLeq(Frac(probe.base, MAX_DENOM), probe.duration)
    /\ probe.q <= probe.maxq => probe.duration = Frac(probe.base, 1)
    /\ FracLeq(DeadlineDuration(probe.base, probe.maxq, probe.q + 1),
               probe.duration)

\* the payload lets _handle_get_task submit the task
Submittable(files) ==
  /\ files.wellformed
  /\ files.tool \in ConfiguredTools
  /\ ~params.clear_queue

\* the registry entries that are marked invalid and not yet being finalized
InvalidWaiting ==
  {req_id_to_data[i].requestId : i \in
     {j \in 1..Len(req_id_to_data) :
        /\ req_id_to_data[j].is_invalid
        /\ ~req_id_to_data[j].pending_finalization}}

C24_RoundRobinOverFreeSlots ==
  [][task_index' # task_index =>
       LET n == Len(req_id_to_data')
       IN /\ task_index' = task_index + 1
          /\ n > 0
          /\ req_id_to_data'[n].executor_idx
               = task_index % Cardinality(DOMAIN executor)
          /\ \A j \in 1..(n - 1) :
               req_id_to_data'[j].executor_idx
                 # req_id_to_data'[n].executor_idx]_vars

(***************************************************************************)
(* C25: a request leaves the registry only in a step that handles a store  *)
(* response for it and appends its Done Task to the done list, or in a     *)
(* tick that counts a timeout for it, with the counter still below the     *)
(* limit, and puts it at the end of the pending queue.                     *)
(***************************************************************************)
C25_RemovedOnlyPublishedOrRequeued ==
  [][\A r \in Keys(req_id_to_data) \ Keys(req_id_to_data') :
       \/ /\ IpfsResponse
          /\ CopiesOf(StoreCalls(r), req_to_callback')
               < CopiesOf(StoreCalls(r), req_to_callback)
          /\ Len(done_tasks') = Len(done_tasks) + 1
          /\ done_tasks'[Len(done_tasks')].request_id = r
       \/ /\ Tick
          /\ request_id_to_num_timeouts'[r]
               = request_id_to_num_timeouts[r] + 1
          /\ request_id_to_num_timeouts'[r] < params.timeout_limit
          /\ pending_tasks' # << >>
          /\ pending_tasks'[Len(pending_tasks')].requestId = r
          /\ done_tasks' = done_tasks]_vars

\* a published request and a requeued one have both left the registry
C25_Witness ==
  /\ DoneIds # {}
  /\ \E i \in 1..Len(pending_tasks) :
       /\ request_id_to_num_timeouts[pending_tasks[i].requestId] > 0
       /\ pending_tasks[i].requestId \notin Keys(req_id_to_data)
  /\ DoneIds \cap Keys(req_id_to_data) = {}

\* how many entries of a queue or registry are for request r
TaskCount(tasks, r) ==
  Cardinality({i \in 1..Len(tasks) : tasks[i].requestId = r})

\* how many Done Task records are for request r
DoneCount(r) ==
  Cardinality({i \in 1..Len(done_tasks) : done_tasks[i].request_id = r})

(***************************************************************************)
(* C26: every accepted request is in exactly one of the pending queue, the *)
(* registry and the done list, and in that one exactly once.               *)
(***************************************************************************)
C26_RequestConservation ==
  \A r \in 1..Len(accepted) :
    TaskCount(pending_tasks, r) + TaskCount(req_id_to_data, r)
      + DoneCount(r) = 1

\* one request is published, the other was requeued and waits in the queue
C26_Witness ==
  /\ Len(accepted) = MaxRequests
  /\ \E r \in DoneIds : r \notin Keys(req_id_to_data)
  /\ \E i \in 1..Len(pending_tasks) :
        request_id_to_num_timeouts[pending_tasks[i].requestId] > 0
  /\ Keys(req_id_to_data) = {}

\* the unanswered payload fetches for request r
GetTaskCalls(r) ==
  {m \in BagToSet(req_to_callback) :
     m.callback = "get_task" /\ m.req_id = r}

(***************************************************************************)
(* C27: a registry task whose payload fetch is still unanswered is not     *)
(* treated as ready, timed out or invalid by a tick: the tick counts no    *)
(* timeout for it, does not start its finalization and leaves it in the    *)
(* registry; this holds for a requeued task that was dequeued again too.   *)
(***************************************************************************)
C27_AwaitingPayloadIsLeftAlone ==
  [][\A r \in Keys(req_id_to_data) :
       (Tick /\ GetTaskCalls(r) # {}) =>
         /\ request_id_to_num_timeouts'[r] = request_id_to_num_timeouts[r]
         /\ r \in Keys(req_id_to_data')
         /\ EntryAfter(r).pending_finalization
              = EntryOf(r).pending_finalization]_vars

(***************************************************************************)
(* C28: whenever a step handles the payload response of a registry task    *)
(* and accepts the payload as valid (prompt and tool present, clear_queue  *)
(* off, tool among the configured tools), the tool is in the tool cache,   *)
(* so that the task gets its handle and deadline.                          *)
(***************************************************************************)
C28_AcceptedToolIsCached ==
  [][\A m \in BagToSet(req_to_callback) :
       ( /\ m.callback = "get_task"
         /\ m.req_id \in Keys(req_id_to_data)
         /\ IpfsResponse
         /\ req_to_callback' = BagRemove(req_to_callback, m)
         /\ Submittable(m.files) )
       => m.files.tool \in all_tools]_vars

(***************************************************************************)
(* C29: a tick that starts with the in-flight flag set and its timeout not *)
(* elapsed leaves the pending queue, the registry, the timeout counters,   *)
(* the slot counter, the done list and the time of the last scan as they   *)
(* are; _execute_task and _check_for_new_reqs send nothing and leave the   *)
(* flag and its timeout alone: whatever the tick sends, and whatever it    *)
(* does to the flag, is what _download_tools did.                          *)
(***************************************************************************)
C29_InFlightTickChangesNothing ==
  [][(Tick /\ InFlight(SchedState)) =>
       /\ pending_tasks' = pending_tasks
       /\ req_id_to_data' = req_id_to_data
       /\ request_id_to_num_timeouts' = request_id_to_num_timeouts
       /\ task_index' = task_index
       /\ done_tasks' = done_tasks
       /\ executor' = executor
       /\ last_polling' = last_polling
       /\ ledger_requests' = ledger_requests
       /\ req_to_callback' = download_tools(SchedState).req_to_callback
       /\ in_flight_req' = download_tools(SchedState).in_flight_req
       /\ in_flight_req_timeout'
            = download_tools(SchedState).in_flight_req_timeout
       /\ \A cancelled \in BOOLEAN :
            /\ execute_task(SchedState, cancelled) = SchedState
            /\ check_for_new_reqs(SchedState) = SchedState]_vars

\* the flag is in flight while a request waits and a slot is free, a task is
\* past its deadline and every tool is cached
C29_Witness ==
  /\ InFlight(SchedState)
  /\ pending_tasks # << >>
  /\ Len(req_id_to_data) < Cardinality(DOMAIN executor)
  /\ \E i \in 1..Len(req_id_to_data) :
       has_executing_task_timed_out(req_id_to_data[i])
  /\ ConfiguredTools \subseteq all_tools

\* the queue after the step is the queue before it less its first k requests,
\* followed by whatever the step enqueued
ServedFromHead(k) ==
  /\ k <= Len(pending_tasks)
  /\ Len(pending_tasks') >= Len(pending_tasks) - k
  /\ \A i \in 1..(Len(pending_tasks) - k) :
       pending_tasks'[i].requestId = pending_tasks[i + k].requestId
  /\ \A i \in 1..k :
       pending_tasks[i].requestId \in Keys(req_id_to_data')

(***************************************************************************)
(* C30: the pending queue is first-in first-out.  A step takes requests    *)
(* only from the head of the queue, at most one, into the registry, and    *)
(* adds requests, requeued ones included, only behind those that wait; the *)
(* request a dequeue takes is the head of the queue, or, if the queue was  *)
(* empty, the request the same tick has just requeued.                     *)
(***************************************************************************)
C30_PendingQueueIsFifo ==
  [][/\ ServedFromHead(0) \/ ServedFromHead(1)
     /\ ~ServedFromHead(0) => task_index' = task_index + 1
     /\ task_index' # task_index =>
          LET new == req_id_to_data'[Len(req_id_to_data')]
          IN IF pending_tasks # << >>
               THEN /\ new.requestId = Head(pending_tasks).requestId
                    /\ ServedFromHead(1)
               ELSE /\ new.requestId \in Keys(req_id_to_data)
                    /\ request_id_to_num_timeouts'[new.requestId]
                         = request_id_to_num_timeouts[new.requestId] + 1]_vars

\* a request that waited was served before the one requeued behind it
C30_Witness ==
  /\ Len(pending_tasks) = 1
  /\ request_id_to_num_timeouts[pending_tasks[1].requestId] = 1
  /\ \E i \in 1..Len(req_id_to_data) :
       /\ request_id_to_num_timeouts[req_id_to_data[i].requestId] = 0
       /\ req_id_to_data[i].timeout_deadline = None
       /\ req_id_to_data[i].executor_idx = 1 % Cardinality(DOMAIN executor)
  /\ task_index = 2

\* the step sends a ledger query of this kind
LedgerIssued(call) ==
  CopiesIn(call, ledger_requests') > CopiesIn(call, ledger_requests)

(***************************************************************************)
(* C15: while from_block is unset only the latest-block seed query is      *)
(* issued, never the scan; a ledger query is issued only when no query is  *)
(* in flight (flag unset, or its timeout, 10s for the seed and 900s for    *)
(* the scan, elapsed); two scans are at least the polling interval apart   *)
(* (_last_polling is the time of the last scan).                           *)
(***************************************************************************)
C15_PollerCadence ==
  [][/\ from_block = "None" =>
           ~LedgerIssued("get_multiple_undelivered_reqs")
     /\ \A call \in {"get_block", "get_multiple_undelivered_reqs"} :
           LedgerIssued(call) =>
             ~(in_flight_req /\ now < in_flight_req_timeout)
     /\ LedgerIssued("get_block") =>
           /\ from_block = "None"
           /\ in_flight_req' /\ in_flight_req_timeout' = now + 10
     /\ LedgerIssued("get_multiple_undelivered_reqs") =>
           /\ last_polling = None \/ now - last_polling >= polling_interval
           /\ last_polling' = now
           /\ in_flight_req' /\ in_flight_req_timeout' = now + 900
     /\ ~LedgerIssued("get_multiple_undelivered_reqs") =>
           last_polling' = last_polling]_vars

\* a second scan is unanswered, a polling interval after the first
C15_Witness ==
  /\ last_polling # None
  /\ last_polling >= polling_interval
  /\ CopiesIn("get_multiple_undelivered_reqs", ledger_requests) > 0

(***************************************************************************)
(* C9: when _submit_task finds the slot's pool broken it restarts the slot, *)
(* retries the submission on the restarted slot and the task has a handle: *)
(* after the payload response that found the slot broken, the slot is      *)
(* whole and a task bound to it has just been submitted and is running.    *)
(* (Only a content-store response removes a call from req_to_callback, so  *)
(* the restart of the step is the one _submit_task made.)                  *)
(***************************************************************************)
C9_BrokenSlotIsRetried ==
  [][\A idx \in DOMAIN executor :
       /\ executor[idx] = "broken"
       /\ executor'[idx] = "ok"
       /\ BagCardinality(req_to_callback') < BagCardinality(req_to_callback)
       => \E i \in 1..Len(req_id_to_data') :
            /\ req_id_to_data'[i].executor_idx = idx
            /\ req_id_to_data'[i].async_result = "running"
            /\ req_id_to_data'[i].requestId \in submitted' \ submitted]_vars

(***************************************************************************)
(* C10: when a task times out with its counter at the retry limit, the     *)
(* envelope stored for it carries the synthetic "Task timed out ..."       *)
(* result.                                                                 *)
(***************************************************************************)
C10_TimeoutEnvelopeExplains ==
  [][\A r \in RequestIds :
       /\ request_id_to_num_timeouts'[r] > request_id_to_num_timeouts[r]
       /\ request_id_to_num_timeouts'[r] >= params.timeout_limit
       => Call("store", r, Files(TRUE, "", TIMEOUT_MESSAGE))
            \in BagToSet(req_to_callback')]_vars

=============================================================================
